---------------------------- MODULE Spec2Model ----------------------------
(***************************************************************************)
(* Model of the two helper programs of sc-agent:                           *)
(*   scripts/sc_capture_thumbnail.py  (the capture tool, CaptureSpec)      *)
(*   chat_window.py                   (the chat window, ChatSpec)          *)
(* The two programs are independent executables; each has a specification  *)
(* of its own over its own variables.                                      *)
(***************************************************************************)
EXTENDS Integers, Sequences, FiniteSets, TLC

(* ------------------------------ bounds --------------------------------- *)
\* largest size, in bytes, of the output file
MaxFileSize == 2
\* largest PipeWire node identifier the compositor announces
MaxNodeId == 1
\* number of lines the parent writes to the chat window's standard input
MaxLines == 2
\* number of times the user submits the input field
MaxSends == 1

(***************************************************************************)
(*                    THE CAPTURE TOOL: state                              *)
(***************************************************************************)
VARIABLES
  pc,            \* position of main()
  exc,           \* the last exception raised (kind, msg), kind "none" when there is none
  session_path,  \* the session handle returned by CreateSession, "" before
  stream_path,   \* the stream handle returned by RecordMonitor, "" before
  sub_id,        \* TRUE while the PipeWireStreamAdded subscription is registered
  started,       \* the compositor has accepted Start
  emitted,       \* the compositor has emitted PipeWireStreamAdded
  pending,       \* the notification queued on the main context, not dispatched yet
  node_id_box,   \* <<>> is [None], <<n>> is [n]
  gst,           \* how subprocess.run ended
  fileExists,    \* os.path.exists(output_path)
  fileSize,      \* os.path.getsize(output_path)
  stdout,        \* the lines printed on standard output
  exitCode,      \* the process's exit code, -1 while it runs
  hist           \* the calls made so far, in order

(***************************************************************************)
(*                    THE CHAT WINDOW: state                               *)
(***************************************************************************)
VARIABLES
  stdin,               \* the lines the parent writes to standard input
  stdinEnd,            \* how the stream ended: "eof", "ioerror", or "open" (not yet)
  rpos,                \* index of the next line the reader thread reads
  rstate,              \* reader thread: "iter", "after_241", "returned", "dead"
  afterQueue,          \* callbacks deferred onto the UI loop by root.after(0, ...)
  chat_area,           \* the transcript: the entries inserted into the Text widget
  raised,              \* number of times _raise_window has run
  window,              \* "open", or "destroyed" (mainloop ends, the process exits)
  stderr,              \* uncaught exceptions reported on standard error
  input_field,         \* the Entry's text, a sequence of characters
  _placeholder_active, \* self._placeholder_active
  focus,               \* the Entry has the keyboard focus
  submits,             \* number of times _on_send has run
  lost,                \* number of messages whose write to standard output failed
  chat_stdout          \* the lines written to standard output

chatVars == <<stdin, stdinEnd, rpos, rstate, afterQueue, chat_area, raised,
              window, stderr, input_field, _placeholder_active, focus,
              lost, submits, chat_stdout>>

capVars == <<pc, exc, session_path, stream_path, sub_id, started, emitted,
             pending, node_id_box, gst, fileExists, fileSize, stdout,
             exitCode, hist>>

vars == <<capVars, chatVars>>

NoExc == [kind |-> "none", msg |-> ""]

\* str(n) of an f-string
Str(n) == ToString(n)

(* ------------------------- the capture tool ---------------------------- *)

\* the chat window is another process: it is not part of a run of the capture tool
ChatNotRunning ==
  /\ stdin = << >>
  /\ stdinEnd = "eof"
  /\ rpos = 1
  /\ rstate = "returned"
  /\ afterQueue = << >>
  /\ chat_area = << >>
  /\ raised = 0
  /\ window = "destroyed"
  /\ stderr = << >>
  /\ input_field = << >>
  /\ _placeholder_active = FALSE
  /\ focus = FALSE
  /\ lost = 0
  /\ submits = 0
  /\ chat_stdout = << >>

CaptureInit ==
  /\ ChatNotRunning
  /\ pc = "bus_get_sync"
  /\ exc = NoExc
  /\ session_path = ""
  /\ stream_path = ""
  /\ sub_id = FALSE
  /\ started = FALSE
  /\ emitted = FALSE
  /\ pending = << >>
  /\ node_id_box = << >>
  /\ gst = "not_run"
  \* the output path may hold a file of an earlier run
  /\ fileExists \in BOOLEAN
  /\ fileSize \in 0..MaxFileSize
  /\ (~fileExists => fileSize = 0)
  /\ stdout = << >>
  /\ exitCode = -1
  /\ hist = << >>

\* print(line, flush=True)
PrintLine(line) == stdout' = Append(stdout, line)

\* the process ends with this exit code
Exit(code) == /\ pc' = "exited"
              /\ exitCode' = code

\* an exception raised inside the try block of lines 32-141
RaiseInTry(kind, msg) == /\ exc' = [kind |-> kind, msg |-> msg]
                         /\ pc' = "except"

\* lines 26-30
BusGetSync ==
  /\ pc = "bus_get_sync"
  /\ \E ok \in BOOLEAN :
       IF ok
         THEN /\ pc' = "CreateSession"
              /\ UNCHANGED <<stdout, exitCode>>
         ELSE /\ PrintLine("ERROR:dbus_connect:" \o "no session bus")
              /\ Exit(1)
  /\ hist' = Append(hist, "bus_get_sync")
  /\ UNCHANGED <<exc, session_path, stream_path, sub_id, started, emitted,
                 pending, node_id_box, gst, fileExists, fileSize>>
  /\ UNCHANGED chatVars

\* lines 34-53
CreateSession ==
  /\ pc = "CreateSession"
  /\ \E ok \in BOOLEAN :
       IF ok
         THEN /\ session_path' = "/session"
              /\ pc' = "RecordMonitor"
              /\ UNCHANGED exc
         ELSE /\ RaiseInTry("Exception", "CreateSession failed")
              /\ UNCHANGED session_path
  /\ hist' = Append(hist, "CreateSession")
  /\ UNCHANGED <<stream_path, sub_id, started, emitted, pending, node_id_box,
                 gst, fileExists, fileSize, stdout, exitCode>>
  /\ UNCHANGED chatVars

\* lines 56-69
RecordMonitor ==
  /\ pc = "RecordMonitor"
  /\ \E ok \in BOOLEAN :
       IF ok
         THEN /\ stream_path' = "/stream"
              /\ pc' = "signal_subscribe"
              /\ UNCHANGED exc
         ELSE /\ RaiseInTry("Exception", "RecordMonitor failed")
              /\ UNCHANGED stream_path
  /\ hist' = Append(hist, "RecordMonitor")
  /\ UNCHANGED <<session_path, sub_id, started, emitted, pending, node_id_box,
                 gst, fileExists, fileSize, stdout, exitCode>>
  /\ UNCHANGED chatVars

\* line 80 without effect: the call returns but no subscription is registered
SignalSubscribeNotRegistered ==
  /\ pc = "signal_subscribe"
  /\ \E ok \in BOOLEAN :
       IF ok
         THEN /\ pc' = "Start"
              /\ UNCHANGED <<sub_id, exc>>
         ELSE /\ RaiseInTry("Exception", "signal_subscribe failed")
              /\ UNCHANGED sub_id
  /\ hist' = Append(hist, "signal_subscribe")
  /\ UNCHANGED <<session_path, stream_path, started, emitted, pending,
                 node_id_box, gst, fileExists, fileSize, stdout, exitCode>>
  /\ UNCHANGED chatVars

\* lines 72-88
SignalSubscribe ==
  /\ pc = "signal_subscribe"
  /\ \E ok \in BOOLEAN :
       IF ok
         THEN /\ sub_id' = TRUE
              /\ pc' = "Start"
              /\ UNCHANGED exc
         ELSE /\ RaiseInTry("Exception", "signal_subscribe failed")
              /\ UNCHANGED sub_id
  /\ hist' = Append(hist, "signal_subscribe")
  /\ UNCHANGED <<session_path, stream_path, started, emitted, pending,
                 node_id_box, gst, fileExists, fileSize, stdout, exitCode>>
  /\ UNCHANGED chatVars

\* lines 91-101
Start ==
  /\ pc = "Start"
  /\ \E ok \in BOOLEAN :
       IF ok
         THEN /\ started' = TRUE
              /\ pc' = "loop_run"
              /\ UNCHANGED exc
         ELSE /\ RaiseInTry("Exception", "Start failed")
              /\ UNCHANGED started
  /\ hist' = Append(hist, "Start")
  /\ UNCHANGED <<session_path, stream_path, sub_id, emitted, pending,
                 node_id_box, gst, fileExists, fileSize, stdout, exitCode>>
  /\ UNCHANGED chatVars

\* The compositor, once the session is started, announces the stream's node:
\* the notification reaches the process only while the subscription exists.
EmitPipeWireStreamAdded ==
  /\ started
  /\ ~emitted
  /\ pc # "exited"
  /\ emitted' = TRUE
  /\ \E n \in 0..MaxNodeId :
       pending' = IF sub_id THEN <<n>> ELSE pending
  /\ UNCHANGED <<pc, exc, session_path, stream_path, sub_id, started,
                 node_id_box, gst, fileExists, fileSize, stdout, exitCode, hist>>
  /\ UNCHANGED chatVars

\* lines 75-78 run by loop.run() (line 105): _on_signal
OnSignal ==
  /\ pc = "loop_run"
  /\ pending # << >>
  /\ node_id_box' = <<pending[1]>>
  /\ pending' = << >>
  /\ pc' = "signal_unsubscribe"
  /\ hist' = Append(hist, "_on_signal")
  /\ UNCHANGED <<exc, session_path, stream_path, sub_id, started, emitted,
                 gst, fileExists, fileSize, stdout, exitCode>>
  /\ UNCHANGED chatVars

\* lines 104-105: the 5 s timeout source quits the loop
LoopTimeout ==
  /\ pc' = "signal_unsubscribe"
  /\ hist' = Append(hist, "timeout")
  /\ UNCHANGED <<exc, session_path, stream_path, sub_id, started, emitted,
                 pending, node_id_box, gst, fileExists, fileSize, stdout,
                 exitCode>>
  /\ UNCHANGED chatVars

\* line 104 left out: no timeout source, the loop ends on the notification only
OnTimeoutNeverAdded ==
  /\ pc = "loop_run"
  /\ FALSE
  /\ LoopTimeout

OnTimeout ==
  /\ pc = "loop_run"
  /\ LoopTimeout

\* line 106
SignalUnsubscribe ==
  /\ pc = "signal_unsubscribe"
  /\ sub_id' = FALSE
  /\ pending' = << >>
  /\ pc' = "check_node"
  /\ hist' = Append(hist, "signal_unsubscribe")
  /\ UNCHANGED <<exc, session_path, stream_path, started, emitted,
                 node_id_box, gst, fileExists, fileSize, stdout, exitCode>>
  /\ UNCHANGED chatVars

\* line 108: node_id_box[0] is None
NodeIsNone == node_id_box = << >>

\* lines 108-113, going to `onNone` when no node identifier was received
CheckNodeTo(onNone) ==
  /\ pc = "check_node"
  /\ pc' = IF NodeIsNone THEN onNone ELSE "subprocess_run"
  /\ UNCHANGED <<exc, session_path, stream_path, sub_id, started, emitted,
                 pending, node_id_box, gst, fileExists, fileSize, stdout,
                 exitCode, hist>>
  /\ UNCHANGED chatVars

\* line 109 left out: the error is reported without stopping the session
CheckNodeNoStop == CheckNodeTo("print_110")

\* lines 108, 113
CheckNode == CheckNodeTo("stop_109")

\* lines 154-169 without the try/except: the failure of Stop propagates
_stop_propagates(next) ==
  \E stopRaises \in BOOLEAN :
     /\ hist' = Append(hist, IF stopRaises THEN "Stop:raised" ELSE "Stop:ok")
     /\ IF stopRaises
          THEN RaiseInTry("Exception", "Stop failed")
          ELSE /\ pc' = next
               /\ UNCHANGED exc

\* lines 154-169: the Stop call raises or not; _stop returns either way
_stop(next) ==
  /\ \E stopRaises \in BOOLEAN :
       hist' = Append(hist, IF stopRaises THEN "Stop:raised" ELSE "Stop:ok")
  /\ pc' = next
  /\ UNCHANGED exc

\* line 109
StopOnTimeout ==
  /\ pc = "stop_109"
  /\ _stop("print_110")
  /\ UNCHANGED <<session_path, stream_path, sub_id, started, emitted,
                 pending, node_id_box, gst, fileExists, fileSize, stdout,
                 exitCode>>
  /\ UNCHANGED chatVars

\* lines 110-111: sys.exit raises SystemExit inside the try block
PrintNoNode ==
  /\ pc = "print_110"
  /\ PrintLine("ERROR:no_pipewire_node")
  /\ RaiseInTry("SystemExit", "1")
  /\ hist' = Append(hist, "print")
  /\ UNCHANGED <<session_path, stream_path, sub_id, started, emitted,
                 pending, node_id_box, gst, fileExists, fileSize, exitCode>>
  /\ UNCHANGED chatVars

\* lines 116-138: subprocess.run(gst_cmd, timeout=10, ...); with check set, a
\* non-zero exit status raises CalledProcessError
SubprocessRunWith(check) ==
  /\ pc = "subprocess_run"
  /\ \E how \in {"launch_failed", "exit_zero", "exit_nonzero", "timeout"} :
       /\ gst' = how
       /\ CASE how = "launch_failed" ->
                 /\ RaiseInTry("Exception", "No such file or directory")
                 /\ UNCHANGED <<fileExists, fileSize>>
            [] how = "timeout" ->
                 /\ RaiseInTry("Exception", "timed out after 10 seconds")
                 /\ \/ UNCHANGED <<fileExists, fileSize>>
                    \/ /\ fileExists' = TRUE
                       /\ fileSize' \in 0..MaxFileSize
            [] OTHER ->
                 /\ IF check /\ how = "exit_nonzero"
                      THEN RaiseInTry("Exception", "non-zero exit status")
                      ELSE /\ pc' = "stop_140"
                           /\ UNCHANGED exc
                 /\ \/ UNCHANGED <<fileExists, fileSize>>
                    \/ /\ fileExists' = TRUE
                       /\ fileSize' \in 0..MaxFileSize
  /\ hist' = Append(hist, "subprocess_run")
  /\ UNCHANGED <<session_path, stream_path, sub_id, started, emitted,
                 pending, node_id_box, stdout, exitCode>>
  /\ UNCHANGED chatVars

SubprocessRunChecked == SubprocessRunWith(TRUE)

\* lines 133-138: check is not set
SubprocessRun == SubprocessRunWith(FALSE)

\* line 140 left out: the session is not stopped after the pipeline
StopAfterPipelineSkipped ==
  /\ pc = "stop_140"
  /\ pc' = "file_check"
  /\ UNCHANGED <<exc, hist>>
  /\ UNCHANGED <<session_path, stream_path, sub_id, started, emitted,
                 pending, node_id_box, gst, fileExists, fileSize, stdout,
                 exitCode>>
  /\ UNCHANGED chatVars

\* line 140
StopAfterPipeline ==
  /\ pc = "stop_140"
  /\ _stop("file_check")
  /\ UNCHANGED <<session_path, stream_path, sub_id, started, emitted,
                 pending, node_id_box, gst, fileExists, fileSize, stdout,
                 exitCode>>
  /\ UNCHANGED chatVars

\* a bare `except:` catches SystemExit too
CatchesBare(kind) == TRUE

\* line 142: the exception kinds `except Exception` catches
Catches(kind) == kind = "Exception"

\* lines 142-143 without the sys.exit(1) of line 144: main goes on to line 146
ExceptNoExit ==
  /\ pc = "except"
  /\ IF Catches(exc.kind)
       THEN /\ PrintLine("ERROR:capture:" \o exc.msg)
            /\ hist' = Append(hist, "print")
            /\ pc' = "file_check"
            /\ UNCHANGED exitCode
       ELSE /\ UNCHANGED <<stdout, hist>>
            /\ Exit(1)
  /\ UNCHANGED <<exc, session_path, stream_path, sub_id, started, emitted,
                 pending, node_id_box, gst, fileExists, fileSize>>
  /\ UNCHANGED chatVars

\* lines 142-144, and SystemExit passing through them
Except ==
  /\ pc = "except"
  /\ IF Catches(exc.kind)
       THEN /\ PrintLine("ERROR:capture:" \o exc.msg)
            /\ hist' = Append(hist, "print")
            /\ Exit(1)
       ELSE /\ UNCHANGED <<stdout, hist>>
            /\ Exit(1)
  /\ UNCHANGED <<exc, session_path, stream_path, sub_id, started, emitted,
                 pending, node_id_box, gst, fileExists, fileSize>>
  /\ UNCHANGED chatVars

\* line 146 without the size test
FileOkExistsOnly == fileExists

\* line 146
FileOk == fileExists /\ fileSize > 0

\* lines 146-151
FileCheck ==
  /\ pc = "file_check"
  /\ IF FileOk
       THEN /\ PrintLine("OK:" \o Str(fileSize))
            /\ Exit(0)
       ELSE /\ PrintLine("ERROR:empty_file")
            /\ Exit(1)
  /\ hist' = Append(Append(hist, "file_check"), "print")
  /\ UNCHANGED <<exc, session_path, stream_path, sub_id, started, emitted,
                 pending, node_id_box, gst, fileExists, fileSize>>
  /\ UNCHANGED chatVars

\* the steps of the process itself
CaptureProgram ==
  \/ BusGetSync
  \/ CreateSession
  \/ RecordMonitor
  \/ SignalSubscribe
  \/ Start
  \/ OnSignal
  \/ OnTimeout
  \/ SignalUnsubscribe
  \/ CheckNode
  \/ StopOnTimeout
  \/ PrintNoNode
  \/ SubprocessRun
  \/ StopAfterPipeline
  \/ Except
  \/ FileCheck

CaptureNext ==
  \/ CaptureProgram
  \/ EmitPipeWireStreamAdded

CaptureSpec == CaptureInit /\ [][CaptureNext]_vars

\* Every call of the program returns or times out, and the timeout source of
\* line 104 fires: a step of the program that is enabled is eventually taken.
CaptureFairSpec == CaptureSpec /\ WF_vars(CaptureProgram)

(***************************************************************************)
(*                    THE CAPTURE TOOL: properties                         *)
(***************************************************************************)
Exited == pc = "exited"

InHist(e) == \E i \in DOMAIN hist : hist[i] = e

StopAttempted == InHist("Stop:ok") \/ InHist("Stop:raised")

\* the wait of line 105 ended on the timeout, with no node identifier received
WaitTimedOut == started /\ InHist("timeout") /\ node_id_box = << >>

\* the exception raised by a call of the try block
Failed == exc.kind = "Exception"

\* C1: every run of main writes exactly one status line to standard output
\* before the process exits: never more than one line at any moment, and
\* exactly one when the process has exited.
C1_ExactlyOneStatusLine ==
  /\ Len(stdout) <= 1
  /\ Exited => Len(stdout) = 1

\* C1 witness: the process has exited after the notification timed out, having
\* printed inside the try block and left through sys.exit.
C1_Witness ==
  /\ Exited
  /\ WaitTimedOut
  /\ stdout = <<"ERROR:no_pipewire_node">>

\* C2 (as claimed): once CreateSession has returned a session handle, the
\* process does not exit without the session's Stop having been attempted.
C2_StopOnEveryExit ==
  (Exited /\ session_path # "") => StopAttempted

\* C3: when the session was started and the wait ended without a node
\* identifier, Stop is attempted, the only status line is
\* ERROR:no_pipewire_node, the exit code is non-zero and the pipeline is never
\* invoked.
C3_NoNodeOutcome ==
  /\ WaitTimedOut => gst = "not_run"
  /\ (Exited /\ WaitTimedOut) =>
        /\ StopAttempted
        /\ stdout = <<"ERROR:no_pipewire_node">>
        /\ exitCode # 0
        /\ ~InHist("subprocess_run")

\* C3 witness: the run ended on the timeout although the compositor had emitted
\* the notification (it was still queued), and the Stop call raised.
C3_Witness ==
  /\ Exited
  /\ WaitTimedOut
  /\ emitted
  /\ InHist("Stop:raised")

\* the status the file check of lines 146-151 gives for the output file
FileStatus == IF fileExists /\ fileSize > 0
                THEN "OK:" \o Str(fileSize)
                ELSE "ERROR:empty_file"

\* C4 (as claimed): once the pipeline has been invoked, however it ended (zero
\* exit, non-zero exit, not finished within 10 seconds), the status depends on
\* the output file only.
C4_FileDecidesAlways ==
  (Exited /\ gst \in {"exit_zero", "exit_nonzero", "timeout"}) =>
     stdout = <<FileStatus>>

\* C4 (amended): when the pipeline ended within its 10 seconds, with a zero or
\* a non-zero exit status, the status depends on the output file only; when it
\* did not finish within 10 seconds the status is ERROR:capture:<detail>, the
\* exit code is non-zero and the file is not checked.
C4_FileDecidesWhenPipelineReturns ==
  /\ (Exited /\ gst \in {"exit_zero", "exit_nonzero"}) =>
        stdout = <<FileStatus>>
  /\ (Exited /\ gst = "timeout") =>
        /\ stdout = <<"ERROR:capture:" \o exc.msg>>
        /\ exitCode # 0
        /\ ~InHist("file_check")

\* C4 witness: the pipeline ended with a non-zero exit status and the output
\* file is non-empty: the run reports OK.
C4_Witness ==
  /\ Exited
  /\ gst = "exit_nonzero"
  /\ fileExists /\ fileSize > 0
  /\ exitCode = 0

\* C5: a run that reaches the file check prints OK:<size> and exits with 0
\* exactly when the output file exists with a size above zero, and prints
\* ERROR:empty_file and exits non-zero otherwise; no other path exits with 0.
C5_FileCheckOutcome ==
  /\ (Exited /\ InHist("file_check")) =>
        IF fileExists /\ fileSize > 0
          THEN stdout = <<"OK:" \o Str(fileSize)>> /\ exitCode = 0
          ELSE stdout = <<"ERROR:empty_file">> /\ exitCode # 0
  /\ (Exited /\ exitCode = 0) => InHist("file_check")

\* C5 witness: the file check found an existing file of zero length.
C5_Witness ==
  /\ Exited
  /\ InHist("file_check")
  /\ fileExists
  /\ fileSize = 0

AtStop == pc \in {"stop_109", "stop_140"}

\* C6: the step that calls Stop continues at the same place, with no new
\* exception, no output and no exit code, whether the Stop call raised or not:
\* the outcome of Stop is visible in the call history only.
C6_StopOutcomeIgnored ==
  [][(AtStop /\ pc' # pc) =>
        /\ pc' = (IF pc = "stop_109" THEN "print_110" ELSE "file_check")
        /\ exc' = exc
        /\ stdout' = stdout
        /\ exitCode' = exitCode
        /\ <<session_path, stream_path, sub_id, started, node_id_box, gst,
             fileExists, fileSize>>' =
           <<session_path, stream_path, sub_id, started, node_id_box, gst,
             fileExists, fileSize>>]_capVars

\* C6 witness: the Stop call raised and the run still reported OK.
C6_Witness ==
  /\ Exited
  /\ InHist("Stop:raised")
  /\ exitCode = 0
  /\ Len(stdout) = 1

\* C7: a failure raised by a call of the try block gives the status line
\* ERROR:capture:<detail> and a non-zero exit code, and the file check is not
\* performed.
C7_FailureIsCaptureError ==
  /\ (pc = "except" /\ Failed) => stdout = << >>
  /\ (Exited /\ Failed) =>
        /\ stdout = <<"ERROR:capture:" \o exc.msg>>
        /\ exitCode # 0
        /\ ~InHist("file_check")

\* C7 witness: the Start call raised and the process has exited.
C7_Witness ==
  /\ Exited
  /\ Failed
  /\ exc.msg = "Start failed"

\* the kind of call an entry of the history records
CallOf(e) == IF e \in {"Stop:ok", "Stop:raised"} THEN "Stop" ELSE e

\* C8: every run terminates, and no call is made twice (nothing is retried or
\* looped): the wait ends on the notification or on the timeout.
C8_Terminates ==
  /\ <>Exited
  /\ [](\A i, j \in DOMAIN hist : i # j => CallOf(hist[i]) # CallOf(hist[j]))

\* C8 witness: the run ended although the compositor never emitted the
\* notification.
C8_Witness ==
  /\ Exited
  /\ InHist("timeout")
  /\ ~emitted

(***************************************************************************)
(*                    THE CHAT WINDOW: model                               *)
(***************************************************************************)

\* the capture tool is another process: it is not part of a run of the chat window
CaptureNotRunning ==
  /\ pc = "not_running"
  /\ exc = NoExc
  /\ session_path = ""
  /\ stream_path = ""
  /\ sub_id = FALSE
  /\ started = FALSE
  /\ emitted = FALSE
  /\ pending = << >>
  /\ node_id_box = << >>
  /\ gst = "not_run"
  /\ fileExists = FALSE
  /\ fileSize = 0
  /\ stdout = << >>
  /\ exitCode = -1
  /\ hist = << >>

(* Text is a sequence of pieces: a piece is a whitespace character, another  *)
(* character, or a run of characters without whitespace at either end.      *)
Whitespace == {" ", "\n"}

\* str.strip(): leading and trailing whitespace removed
RECURSIVE LStrip(_)
LStrip(s) == IF s # << >> /\ Head(s) \in Whitespace THEN LStrip(Tail(s)) ELSE s

RECURSIVE RStrip(_)
RStrip(s) == IF s # << >> /\ s[Len(s)] \in Whitespace
               THEN RStrip(SubSeq(s, 1, Len(s) - 1))
               ELSE s

Strip(s) == RStrip(LStrip(s))

\* the pieces of a text joined into one string
RECURSIVE Join(_)
Join(s) == IF s = << >> THEN "" ELSE Head(s) \o Join(Tail(s))

\* the lines the parent may write
LineBlank   == <<" ", "\n">>
LineInvalid == <<"{bad", "\n">>
LineArray   == <<"[1]", "\n">>
LineFull    == <<" ", "{\"sender\": \"Tech\", \"content\": \"hi\"}", "\n">>
LineEmptyObject == <<"{}", "\n">>

Lines == {LineBlank, LineInvalid, LineArray, LineFull, LineEmptyObject}

\* the Python values json.loads returns
PyDict(d) == [type |-> "dict", val |-> d]
PyList == [type |-> "list", val |-> << >>]
JSONDecodeError == [type |-> "JSONDecodeError", val |-> << >>]
EmptyDict == [k \in {} |-> ""]

\* json.loads(line), for a stripped line
JsonLoads(s) ==
  IF Len(s) # 1 THEN JSONDecodeError
  ELSE CASE s[1] = "{\"sender\": \"Tech\", \"content\": \"hi\"}" ->
              PyDict([sender |-> "Tech", content |-> "hi"])
         [] s[1] = "{}" -> PyDict(EmptyDict)
         [] s[1] = "[1]" -> PyList
         [] OTHER -> JSONDecodeError

\* dict.get(key, default)
DictGet(d, key, default) == IF key \in DOMAIN d THEN d[key] ELSE default

\* a UI loop that runs the newest callback first
AfterNewestFirst(q, fn, sender, content) ==
  <<[fn |-> fn, sender |-> sender, content |-> content]>> \o q

\* root.after(0, fn, ...): the callback is queued on the UI loop, in call order
After(q, fn, sender, content) ==
  Append(q, [fn |-> fn, sender |-> sender, content |-> content])

\* lines 179-182
PlaceholderText == "Type a message..."

ChatInit ==
  /\ CaptureNotRunning
  /\ stdin \in UNION {[1..n -> Lines] : n \in 0..MaxLines}
  /\ stdinEnd = "open"
  /\ rpos = 1
  /\ rstate = "iter"
  /\ afterQueue = << >>
  /\ chat_area = << >>
  /\ raised = 0
  /\ window = "open"
  /\ stderr = << >>
  \* _build_ui has run _set_placeholder (line 108)
  /\ input_field = <<PlaceholderText>>
  /\ _placeholder_active = TRUE
  /\ focus = FALSE
  /\ lost = 0
  /\ submits = 0
  /\ chat_stdout = << >>

uiVars == <<chat_area, raised, window, input_field, _placeholder_active,
            focus, lost, submits, chat_stdout>>

\* the widget state the deferred callbacks act on
widgets == <<chat_area, raised, window>>

\* the state only the user's handlers act on
handlerVars == <<input_field, _placeholder_active, focus, lost, submits,
                 chat_stdout>>

\* lines 195-209: the entry _append_message inserts (the timestamp left out)
Entry(sender, content, is_self) ==
  IF is_self
    THEN [name_tag |-> "you_name", name |-> "You",
          msg_tag |-> "you_msg", text |-> content]
    ELSE [name_tag |-> "tech_name", name |-> sender,
          msg_tag |-> "tech_msg", text |-> content]

\* the reader thread calling the UI method itself instead of deferring it
root_after_direct(fn, sender, content) ==
  /\ chat_area' = IF fn = "_append_message"
                    THEN Append(chat_area, Entry(sender, content, FALSE))
                    ELSE chat_area
  /\ raised' = IF fn = "_raise_window" THEN raised + 1 ELSE raised
  /\ window' = IF fn = "destroy" THEN "destroyed" ELSE window
  /\ UNCHANGED afterQueue

\* lines 241, 242, 246: the reader thread's root.after(0, fn, ...) only queues
\* the callback; the widgets are left to the UI loop
root_after(fn, sender, content) ==
  /\ afterQueue' = After(afterQueue, fn, sender, content)
  /\ UNCHANGED widgets

\* the reader's handling of a parsed value `data` (lines 239-241); a value
\* that is no dict has no get: AttributeError, which neither except clause
\* (lines 243, 245) catches, ends the thread and is reported on standard error
ReaderHandle(data) ==
  IF data.type = "dict"
    THEN /\ root_after("_append_message",
                       DictGet(data.val, "sender", "Support"),
                       DictGet(data.val, "content", ""))
         /\ rstate' = "after_241"
         /\ UNCHANGED stderr
    ELSE /\ rstate' = "dead"
         /\ stderr' = Append(stderr, "AttributeError")
         /\ UNCHANGED <<afterQueue, widgets>>

\* lines 233-241, 243-244: the reader thread reads and handles one line
ReaderReadLine ==
  /\ window = "open"
  /\ rstate = "iter"
  /\ rpos <= Len(stdin)
  /\ rpos' = rpos + 1
  /\ LET line == Strip(stdin[rpos])
         data == JsonLoads(line)
     IN  IF line = << >> \/ data = JSONDecodeError
           THEN UNCHANGED <<rstate, afterQueue, stderr, widgets>>
           ELSE ReaderHandle(data)
  /\ UNCHANGED <<stdin, stdinEnd, handlerVars, capVars>>

\* line 242
ReaderScheduleRaise ==
  /\ window = "open"
  /\ rstate = "after_241"
  /\ root_after("_raise_window", "", "")
  /\ rstate' = "iter"
  /\ UNCHANGED <<stdin, stdinEnd, rpos, stderr, handlerVars, capVars>>

\* line 233 when the parent has written nothing more: the stream is at its
\* end and the iteration stops (the thread returns), or the read raises IOError
\* and lines 245-246 schedule the window's destroy
ReaderEndOfInput ==
  /\ window = "open"
  /\ rstate = "iter"
  /\ rpos > Len(stdin)
  /\ \E how \in {"eof", "ioerror"} :
       /\ stdinEnd' = how
       /\ IF how = "ioerror"
            THEN root_after("destroy", "", "")
            ELSE UNCHANGED <<afterQueue, widgets>>
  /\ rstate' = "returned"
  /\ UNCHANGED <<stdin, rpos, stderr, handlerVars, capVars>>

\* the UI loop runs the oldest deferred callback: _append_message (lines
\* 195-209), _raise_window (lines 250-253) or root.destroy
RunCallback ==
  /\ window = "open"
  /\ afterQueue # << >>
  /\ LET cb == Head(afterQueue)
     IN  /\ afterQueue' = Tail(afterQueue)
         /\ chat_area' = IF cb.fn = "_append_message"
                           THEN Append(chat_area,
                                       Entry(cb.sender, cb.content, FALSE))
                           ELSE chat_area
         /\ raised' = IF cb.fn = "_raise_window" THEN raised + 1 ELSE raised
         /\ window' = IF cb.fn = "destroy" THEN "destroyed" ELSE window
  /\ UNCHANGED <<stdin, stdinEnd, rpos, rstate, stderr, input_field,
                 _placeholder_active, focus, lost, submits, chat_stdout, capVars>>

\* a close that waits until the reader's callbacks have run
_on_close_when_idle ==
  /\ window = "open"
  /\ afterQueue = << >>
  /\ window' = "destroyed"
  /\ UNCHANGED <<stdin, stdinEnd, rpos, rstate, afterQueue, stderr, chat_area,
                 raised, input_field, _placeholder_active, focus, lost, submits,
                 chat_stdout, capVars>>

\* lines 226-227: the user closes the window
_on_close ==
  /\ window = "open"
  /\ window' = "destroyed"
  /\ UNCHANGED <<stdin, stdinEnd, rpos, rstate, afterQueue, stderr, chat_area,
                 raised, input_field, _placeholder_active, focus, lost, submits,
                 chat_stdout, capVars>>

\* lines 184-188, bound to <FocusIn>
_clear_placeholder ==
  /\ window = "open"
  /\ ~focus
  /\ focus' = TRUE
  /\ IF _placeholder_active
       THEN /\ input_field' = << >>
            /\ _placeholder_active' = FALSE
       ELSE UNCHANGED <<input_field, _placeholder_active>>
  /\ UNCHANGED <<stdin, stdinEnd, rpos, rstate, afterQueue, stderr, chat_area,
                 raised, window, lost, submits, chat_stdout, capVars>>

\* lines 190-192 (and 179-182), bound to <FocusOut>
_restore_placeholder ==
  /\ window = "open"
  /\ focus
  /\ focus' = FALSE
  /\ IF Strip(input_field) = << >>
       THEN /\ input_field' = <<PlaceholderText>> \o input_field
            /\ _placeholder_active' = TRUE
       ELSE UNCHANGED <<input_field, _placeholder_active>>
  /\ UNCHANGED <<stdin, stdinEnd, rpos, rstate, afterQueue, stderr, chat_area,
                 raised, window, lost, submits, chat_stdout, capVars>>

\* the texts the user leaves in the Entry by typing, deleting and pasting
Texts == {<< >>, <<"a">>, <<" ">>, <<" ", "b", " ">>}

\* the user edits the text of the focused Entry
EditInput ==
  /\ window = "open"
  /\ focus
  /\ \E t \in Texts \ {input_field} : input_field' = t
  /\ UNCHANGED <<stdin, stdinEnd, rpos, rstate, afterQueue, stderr, chat_area,
                 raised, window, _placeholder_active, focus, lost, submits,
                 chat_stdout, capVars>>

\* json.dumps({"content": text})
JsonDumps(text) == "{\"content\": \"" \o text \o "\"}"

\* the messages the user has sent so far
Sent == Cardinality({i \in DOMAIN chat_area : chat_area[i].name_tag = "you_name"})

\* lines 213-217 without the test of line 213
SendRefusedPlaceholderUnchecked == Strip(input_field) = << >>

\* lines 213-217: _on_send returns without sending
SendRefused == _placeholder_active \/ Strip(input_field) = << >>

\* line 215 without the strip
SendTextUntrimmed == Join(input_field)

\* line 215: the text sent
SendText == Join(Strip(input_field))

\* lines 223-224 with the failure of the write not caught: Tk reports the
\* exception of the callback on standard error
WriteFailedUncaught ==
  /\ lost' = lost + 1
  /\ stderr' = Append(stderr, "BrokenPipeError")
  /\ UNCHANGED chat_stdout

\* lines 220-224: the write of lines 221-222 has failed with BrokenPipeError or
\* IOError, which is ignored
WriteFailed ==
  /\ lost' = lost + 1
  /\ UNCHANGED <<chat_stdout, stderr>>

\* lines 212-224, bound to <Return> and to the Send button; the write of lines
\* 221-222 succeeds, or fails with BrokenPipeError / IOError (lines 223-224)
_on_send ==
  /\ window = "open"
  /\ submits < MaxSends
  /\ submits' = submits + 1
  /\ IF SendRefused
       THEN UNCHANGED <<input_field, chat_area, chat_stdout, lost, stderr>>
       ELSE /\ input_field' = << >>
            /\ chat_area' = Append(chat_area, Entry("You", SendText, TRUE))
            /\ \E written \in BOOLEAN :
                 IF written
                   THEN /\ chat_stdout' = Append(chat_stdout,
                                                 JsonDumps(SendText) \o "\n")
                        /\ UNCHANGED <<lost, stderr>>
                   ELSE WriteFailed
  /\ UNCHANGED <<stdin, stdinEnd, rpos, rstate, afterQueue, raised,
                 window, _placeholder_active, focus, capVars>>

\* the steps of the reader thread
Reader ==
  \/ ReaderReadLine
  \/ ReaderScheduleRaise
  \/ ReaderEndOfInput

ChatNext ==
  \/ Reader
  \/ RunCallback
  \/ _on_close
  \/ _clear_placeholder
  \/ _restore_placeholder
  \/ EditInput
  \/ _on_send

ChatSpec == ChatInit /\ [][ChatNext]_vars

(***************************************************************************)
(*                    THE CHAT WINDOW: properties                          *)
(***************************************************************************)

\* the lines that are well-formed chat records
RecordLines == {LineFull, LineEmptyObject}

\* the transcript entry a well-formed record is to give: its sender ("Support"
\* when absent) and its content (empty when absent), in the remote style
ExpectedEntry(line) ==
  IF line = LineFull
    THEN [name_tag |-> "tech_name", name |-> "Tech",
          msg_tag |-> "tech_msg", text |-> "hi"]
    ELSE [name_tag |-> "tech_name", name |-> "Support",
          msg_tag |-> "tech_msg", text |-> ""]

\* number of positions of sequence s that hold x
Count(s, x) == Cardinality({i \in DOMAIN s : s[i] = x})

\* nothing is left to do for the inbound side: the reader thread has ended or
\* waits for a line the parent has not written, and no callback is pending
InboundQuiet ==
  /\ window = "open"
  /\ afterQueue = << >>
  /\ \/ rstate \in {"returned", "dead"}
     \/ rstate = "iter" /\ rpos > Len(stdin)

\* C9 (as claimed): once the inbound side has nothing left to do, every
\* well-formed record of the input has exactly one remote-styled entry with its
\* sender and content in the transcript, and the window was raised once for
\* each of them.
C9_EveryRecordRendered ==
  InboundQuiet =>
    /\ \A line \in RecordLines :
         Count(chat_area, ExpectedEntry(line)) = Count(stdin, line)
    /\ raised = Cardinality({i \in DOMAIN stdin : stdin[i] \in RecordLines})

\* a line that does not parse as a JSON object
NotJsonObject(line) == line \in {LineBlank, LineInvalid, LineArray}

\* C10 (as claimed): when the reader reads a line that does not parse as a JSON
\* object, nothing is scheduled on the UI loop (the transcript stays as it is
\* and the window is not raised), and the reader raises and reports no error.
C10_NonObjectLineDropped ==
  [][(rpos' = rpos + 1 /\ NotJsonObject(stdin[rpos])) =>
        /\ afterQueue' = afterQueue
        /\ chat_area' = chat_area
        /\ raised' = raised
        /\ stderr' = stderr
        /\ rstate' # "dead"]_vars

\* a step of _on_send
SubmitStep == submits' = submits + 1

\* the input field holds text to send: the placeholder is not active and the
\* text is not empty after trimming
Sendable == ~_placeholder_active /\ input_field \in {<<"a">>, <<" ", "b", " ">>}

\* the text of the input field, trimmed
Trimmed == IF input_field = <<"a">> THEN "a" ELSE "b"

\* the local-styled transcript entry of a text
LocalEntry(t) == [name_tag |-> "you_name", name |-> "You",
                  msg_tag |-> "you_msg", text |-> t]

\* the outbound JSON line whose content is a text
OutboundLine(t) == IF t = "a" THEN "{\"content\": \"a\"}\n"
                              ELSE "{\"content\": \"b\"}\n"

\* C11 (as claimed): each submit of sendable text appends exactly one
\* local-styled entry, emits exactly one outbound line whose content is the
\* trimmed input, and clears the input field.
C11_SubmitSendsOneLine ==
  [][(SubmitStep /\ Sendable) =>
        /\ chat_area' = Append(chat_area, LocalEntry(Trimmed))
        /\ chat_stdout' = Append(chat_stdout, OutboundLine(Trimmed))
        /\ input_field' = << >>]_vars

\* C11 (amended): each submit of sendable text appends exactly one local-styled
\* entry and clears the input field; it emits exactly one outbound line whose
\* content is the trimmed input when the write succeeds, and no line when the
\* write fails.
C11_SubmitSendsOneLineUnlessWriteFails ==
  [][(SubmitStep /\ Sendable) =>
        /\ chat_area' = Append(chat_area, LocalEntry(Trimmed))
        /\ \/ chat_stdout' = Append(chat_stdout, OutboundLine(Trimmed))
                /\ lost' = lost
           \/ chat_stdout' = chat_stdout /\ lost' = lost + 1
        /\ input_field' = << >>]_vars

\* C11 witness: the padded text " b " was submitted: the transcript has the
\* local entry "b", the line with content "b" is written and the field is empty.
C11_Witness ==
  /\ submits = 1
  /\ chat_stdout = <<"{\"content\": \"b\"}\n">>
  /\ \E i \in DOMAIN chat_area : chat_area[i] = LocalEntry("b")
  /\ input_field = << >>

\* the input field shows the placeholder text
ShowsPlaceholder == \E i \in DOMAIN input_field : input_field[i] = PlaceholderText

\* the input field is empty or holds whitespace only
Blank == input_field \in {<< >>, <<" ">>}

\* C12: a submit made while the field is empty, whitespace-only or showing the
\* placeholder emits no outbound line and leaves the transcript and the input
\* field as they are; and in every reachable state no outbound line and no
\* transcript entry carries the placeholder text.
C12_NothingSentFromPlaceholder ==
  /\ [](/\ \A i \in DOMAIN chat_stdout :
              chat_stdout[i] # "{\"content\": \"Type a message...\"}\n"
        /\ \A i \in DOMAIN chat_area : chat_area[i].text # PlaceholderText)
  /\ [][(SubmitStep /\ (Blank \/ ShowsPlaceholder)) =>
           /\ chat_stdout' = chat_stdout
           /\ chat_area' = chat_area
           /\ input_field' = input_field
           /\ lost' = lost]_vars

\* C12 witness: a submit has run and sent nothing, and the field shows the
\* placeholder restored in front of whitespace-only text.
C12_Witness ==
  /\ submits = 1
  /\ chat_stdout = << >>
  /\ lost = 0
  /\ \A i \in DOMAIN chat_area : chat_area[i].name_tag # "you_name"
  /\ input_field = <<PlaceholderText, " ">>
  /\ _placeholder_active

\* a destroy of the window is among the deferred callbacks
DestroyScheduled == \E i \in DOMAIN afterQueue : afterQueue[i].fn = "destroy"

\* C13: once the reader has ended because standard input reached end-of-input,
\* the window's destroy has been scheduled on the UI loop (or has already run),
\* so the window closes without any user action.
C13_EndOfInputClosesWindow ==
  (rstate = "returned" /\ stdinEnd = "eof") =>
     (DestroyScheduled \/ window = "destroyed")

\* a step of the reader thread
ReaderStep == rpos' # rpos \/ rstate' # rstate

\* a step of the UI loop running the oldest deferred callback
CallbackStep == afterQueue # << >> /\ afterQueue' = Tail(afterQueue)

\* C14: a step of the reader thread changes no UI state and at most queues one
\* callback behind those already queued; a remote entry enters the transcript,
\* and the window is raised, only in a step of the UI loop that runs the
\* matching queued callback; and a submit adds nothing to the transcript but
\* its own local entry and leaves the callback queue alone.
C14_ReaderDefersToUiLoop ==
  [][/\ ReaderStep =>
          /\ UNCHANGED uiVars
          /\ \/ afterQueue' = afterQueue
             \/ /\ Len(afterQueue') = Len(afterQueue) + 1
                /\ SubSeq(afterQueue', 1, Len(afterQueue)) = afterQueue
     /\ chat_area' # chat_area =>
          \/ /\ CallbackStep
             /\ Head(afterQueue).fn = "_append_message"
          \/ /\ SubmitStep
             /\ afterQueue' = afterQueue
             /\ chat_area' = Append(chat_area, LocalEntry(Trimmed))
     /\ raised' # raised =>
          CallbackStep /\ Head(afterQueue).fn = "_raise_window"
     /\ window' # window => ~ReaderStep]_vars

\* C14 witness: a submit has put its local entry in the transcript while the
\* append of a record the reader had already handled was still queued.
C14_Witness ==
  /\ afterQueue # << >>
  /\ Head(afterQueue).fn = "_append_message"
  /\ rpos > 1
  /\ submits = 1
  /\ chat_area = <<LocalEntry("a")>>

C16_CloseEndsProcess ==
  /\ [](window = "open" => ENABLED _on_close)
  /\ [][(window = "open" /\ window' = "destroyed" /\ ~CallbackStep) =>
          UNCHANGED <<chat_area, chat_stdout, afterQueue, rpos, rstate,
                      stderr>>]_vars
  /\ [][window = "destroyed" => UNCHANGED vars]_vars

\* C16 witness: the user closed the window while the reader thread was in the
\* middle of the stream and callbacks it had scheduled were still pending.
C16_Witness ==
  /\ window = "destroyed"
  /\ rstate = "after_241"
  /\ afterQueue # << >>
  /\ ~DestroyScheduled

\* C17: once the inbound side has nothing left to do, every well-formed
\* record that came after a dropped line (blank, invalid JSON, or JSON that is
\* not an object) has its entry in the transcript.
C17_RecordAfterDroppedLineRendered ==
  InboundQuiet =>
    \A i \in DOMAIN stdin :
      (/\ stdin[i] \in RecordLines
       /\ \E j \in 1..(i - 1) : NotJsonObject(stdin[j])) =>
         \E k \in DOMAIN chat_area : chat_area[k] = ExpectedEntry(stdin[i])

\* the place of a call in the order of main's steps (0: not one of them)
StepRank(e) ==
  CASE e = "CreateSession" -> 1
    [] e = "RecordMonitor" -> 2
    [] e = "signal_subscribe" -> 3
    [] e = "Start" -> 4
    [] e \in {"_on_signal", "timeout"} -> 5
    [] e = "signal_unsubscribe" -> 6
    [] e = "subprocess_run" -> 7
    [] e \in {"Stop:ok", "Stop:raised"} -> 8
    [] e = "file_check" -> 9
    [] OTHER -> 0

\* the steps made so far were made in the fixed order, each at most once
StepsInOrder ==
  \A i, j \in DOMAIN hist :
    (i < j /\ StepRank(hist[i]) > 0 /\ StepRank(hist[j]) > 0) =>
       StepRank(hist[i]) < StepRank(hist[j])

\* the subscription exists from before Start until the wait has ended
SubscribedAroundWait ==
  /\ \A i \in DOMAIN hist :
       hist[i] = "Start" => \E j \in 1..(i - 1) : hist[j] = "signal_subscribe"
  /\ (started /\ ~InHist("signal_unsubscribe")) => sub_id
  /\ \A i \in DOMAIN hist :
       hist[i] = "signal_unsubscribe" =>
          i > 1 /\ hist[i - 1] \in {"_on_signal", "timeout"}

\* a notification emitted while the subscription exists is queued for the loop
EmissionQueued ==
  (emitted' /\ ~emitted /\ sub_id) => (pending' # << >> /\ pc' = pc)

\* C18 (as claimed): the steps run in the fixed order, the subscription exists
\* from before Start until the wait has ended, and a notification emitted after
\* Start always ends the wait with its node identifier.
C18_NotificationAlwaysEndsWait ==
  /\ [](StepsInOrder /\ SubscribedAroundWait)
  /\ [][EmissionQueued]_vars
  /\ [][(pc = "loop_run" /\ pending # << >> /\ pc' # pc) =>
          /\ node_id_box' = <<pending[1]>>
          /\ pc' = "signal_unsubscribe"]_vars

\* C18 (amended): the steps run in the fixed order, the subscription exists
\* from before Start until the wait has ended, and a notification emitted after
\* Start, also before the loop runs, is queued and ends the wait with its node
\* identifier unless the 5 second timeout ends the wait first; without the
\* notification the wait ends on the timeout only.
C18_NotificationEndsWaitUnlessTimeout ==
  /\ [](StepsInOrder /\ SubscribedAroundWait)
  /\ [][EmissionQueued]_vars
  /\ [][(pc = "loop_run" /\ pc' # pc) =>
          /\ pc' = "signal_unsubscribe"
          /\ \/ /\ pending # << >>
                /\ node_id_box' = <<pending[1]>>
                /\ hist' = Append(hist, "_on_signal")
             \/ /\ node_id_box' = node_id_box
                /\ hist' = Append(hist, "timeout")]_vars

\* C18 witness: the notification ended the wait with its node identifier and
\* the run went through all the steps up to the file check.
C18_Witness ==
  /\ Exited
  /\ node_id_box = <<MaxNodeId>>
  /\ hist[Len(hist)] = "print"
  /\ \E i \in DOMAIN hist : hist[i] = "_on_signal" /\ hist[i - 1] = "Start"
  /\ InHist("subprocess_run") /\ StopAttempted /\ InHist("file_check")

\* a transcript entry in the remote style
IsRemote(e) == e.name_tag = "tech_name"

\* a line that is a well-formed record
IsRecord(line) == line \in RecordLines

\* the remote-styled entries of the transcript, in transcript order
RemoteEntries == SelectSeq(chat_area, IsRemote)

\* the well-formed records of standard input, in arrival order
Records == SelectSeq(stdin, IsRecord)

\* C19: the remote-styled entries of the transcript, local-styled entries left
\* aside, are at every moment the entries of the first records of standard
\* input in their arrival order; and the window has never been raised more
\* often than remote entries were appended (a record's append callback runs
\* before its raise callback).
C19_RemoteEntriesInArrivalOrder ==
  /\ Len(RemoteEntries) <= Len(Records)
  /\ \A i \in DOMAIN RemoteEntries :
       RemoteEntries[i] = ExpectedEntry(Records[i])
  /\ raised <= Len(RemoteEntries)

\* C19 witness: two different records were rendered in their arrival order,
\* with a local entry between them, and the window was raised for both.
C19_Witness ==
  /\ stdin = <<LineEmptyObject, LineFull>>
  /\ chat_area = <<ExpectedEntry(LineEmptyObject), LocalEntry("a"),
                   ExpectedEntry(LineFull)>>
  /\ raised = 2

\* an OK line has been written
OkPrinted ==
  \E i \in DOMAIN stdout : \E n \in 1..MaxFileSize : stdout[i] = "OK:" \o Str(n)

\* C20: when an OK line has been written, a session handle was obtained, a node
\* identifier was received, the pipeline was invoked and returned (with a zero
\* or a non-zero exit status) within its time limit, and Stop was attempted;
\* and in every run a Stop attempt comes before the status line.
C20_OkOnlyAfterFullRun ==
  /\ OkPrinted =>
       /\ session_path # ""
       /\ ~NodeIsNone
       /\ InHist("subprocess_run")
       /\ gst \in {"exit_zero", "exit_nonzero"}
       /\ StopAttempted
       /\ exc = NoExc
  /\ \A i, j \in DOMAIN hist :
       (CallOf(hist[i]) = "Stop" /\ hist[j] = "print") => i < j

\* C20 witness: the run reported OK after a pipeline that returned a non-zero
\* exit status and a Stop call that raised.
C20_Witness ==
  /\ Exited
  /\ stdout = <<"OK:" \o Str(MaxFileSize)>>
  /\ gst = "exit_nonzero"
  /\ InHist("Stop:raised")
  /\ exitCode = 0

=============================================================================
